---- MODULE Spec2Model ----
(***************************************************************************)
(* A model of src/data_entry.py (class DataEntry): the constructor's       *)
(* per-source loop, the angle allocator, the impulse-response lookup, the  *)
(* label synthesizer, the mask codec and the performance evaluator.        *)
(*                                                                         *)
(* Python lists that are appended to are sequences (1-based here; every    *)
(* index the code computes is kept 0-based and shifted by one where a      *)
(* sequence is read).  numpy arrays, and the lists of arrays indexed by a  *)
(* loop counter (targets, net_output), are functions over 0..n-1.          *)
(* Sample buffers are represented by their length, a rendered signal by    *)
(* the source it came from and the stored direction it was convolved with; *)
(* spectrogram magnitudes and network scores are small naturals.           *)
(***************************************************************************)
EXTENDS Integers, Sequences, FiniteSets

VARIABLES
    pc,            \* position of the operation under study / how it ended
    in_signals,    \* __init__: the input signals (each one its length)
    sig_idx,       \* __init__: position of the for loop in in_signals (1-based)
    angles,        \* self.angles
    signals,       \* self.signals
    res_signal,    \* self.res_signal: the rendered signals summed so far
    pos_def,       \* azimuths of the stored directions (pos_def[:, 0])
    forbidden_angles, \* getRandomAngle: its argument
    angle,         \* getBinauralSound: its angle argument / getRandomAngle's result
    audio_out,     \* getBinauralSound: its result
    out_ind,       \* updateTargetsFromSignals: frequency loop index
    time_ind,      \* updateTargetsFromSignals: time loop index
    sgram_vals,    \* updateTargetsFromSignals: source magnitudes of the last bin
    noise_val,     \* updateTargetsFromSignals: noise_sgram value of the last bin
    noise_silent,  \* whether getSpectrogram(self.noise) is an all-zero array
    targets,       \* the targets array being filled / self.targets
    dnn_target,    \* dnnTargetToMixedIbm: its argument (targets or net_output)
    mixed_ibm,     \* the mixed class map
    ibms,          \* mixedIbmToIbms: the masks returned
    rec_angles,    \* mixedIbmToIbms: the angles returned
    performance    \* estimateNetsPerformance: its result

vars == <<pc, in_signals, sig_idx, angles, signals, res_signal, pos_def,
          forbidden_angles, angle, audio_out, out_ind, time_ind, sgram_vals,
          noise_val, noise_silent, targets, dnn_target, mixed_ibm, ibms,
          rec_angles, performance>>

\* Value of a variable the specification at hand does not use.
None == "none"

(***************************************************************************)
(* Bounds of the model.                                                    *)
(***************************************************************************)
\* Most input signals of one mixture.
MaxSources == 2
\* Most stored directions of an impulse-response database.
MaxDirections == 3
\* Most angles forbidden (or left free) in a direct call of getRandomAngle.
MaxForbidden == 2
\* Shape of the spectrograms the label synthesizer walks (time x frequency).
SgramFrames == 1
SgramChannels == 2
\* Shape of the class maps the mask codec and the evaluator handle.
NumTime == 2
NumFreq == 2

(***************************************************************************)
(* Configuration (module parameters, consumed by data_entry.py).           *)
(***************************************************************************)
\* parameters.NUM_OF_DIRECTIONS: one class per grid angle -90, -85, ..., 90.
NUM_OF_DIRECTIONS == 37
\* parameters.MIXED_IBM_IDENTIFICATION_TH, scaled to the maps of the model.
MIXED_IBM_IDENTIFICATION_TH == 2
\* int(parameters.SIGNAL_LENGTH_SEC * parameters.SAMPLE_RATE_HZ), scaled.
signal_length_samples == 2
\* 10 ** (parameters.SGRAM_NOISE_TH_dB / 10) as the positive ratio
\* NoiseFactorNum / NoiseFactorDen.
NoiseFactorNum == 1
NoiseFactorDen == 2

(***************************************************************************)
(* Helpers.                                                                *)
(***************************************************************************)
Abs(x) == IF x < 0 THEN -x ELSE x

Range(s) == {s[i] : i \in 1..Len(s)}

\* Python's `x in list`.
InList(x, s) == \E i \in 1..Len(s) : s[i] = x

\* Python's int(x / d) for d > 0: truncation toward zero.
IntDiv(x, d) == IF x >= 0 THEN x \div d ELSE -((-x) \div d)

\* list(range(start, stop, step)) for step > 0.
PyRange(start, stop, step) ==
    LET n == IF stop > start THEN (stop - start + step - 1) \div step ELSE 0
    IN  [i \in 1..n |-> start + (i - 1) * step]

\* All sequences over S of length lo..hi.
SeqsOf(S, lo, hi) == UNION {[1..n -> S] : n \in lo..hi}

\* The sequences of SeqsOf without a repeated element.
DistinctSeqsOf(S, lo, hi) ==
    {s \in SeqsOf(S, lo, hi) : \A i, j \in 1..Len(s) : i # j => s[i] # s[j]}

(***************************************************************************)
(* getRandomAngle (lines 91-102).                                          *)
(***************************************************************************)
MIN_ANGLE == -90
MAX_ANGLE == 90
STEP == 5

\* Mutant: range(MIN_ANGLE, MAX_ANGLE, STEP), which leaves out MAX_ANGLE.
angles_list_open == PyRange(MIN_ANGLE, MAX_ANGLE, STEP)

angles_list == PyRange(MIN_ANGLE, MAX_ANGLE + STEP, STEP)

\* Mutant: the forbidden angles are not removed.
possible_angles_all(forbidden) == angles_list

\* [angle for angle in angles_list if angle not in forbidden_angles]
possible_angles(forbidden) ==
    LET keep(a) == ~InList(a, forbidden)
    IN  SelectSeq(angles_list, keep)

\* random.choice(seq): any element; IndexError on an empty sequence.
random_choice(seq) == Range(seq)

\* The values getRandomAngle may return; empty when random.choice raises.
getRandomAngle(forbidden) == random_choice(possible_angles(forbidden))

(***************************************************************************)
(* getAngleIdx, getAngleFromIdx (lines 104-110).                           *)
(***************************************************************************)
getAngleIdx(a) == IntDiv(a + 90, 5)

getAngleFromIdx(angle_idx) == angle_idx * 5 - 90

(***************************************************************************)
(* find_closest_idx_in_array, getBinauralSound (lines 112-139).            *)
(***************************************************************************)
\* numpy argmin of a non-empty sequence: 0-based index of the first minimum.
RECURSIVE argmin_from(_, _, _)
argmin_from(s, i, best) ==
    IF i > Len(s) THEN best - 1
    ELSE argmin_from(s, i + 1, IF s[i] < s[best] THEN i ELSE best)

\* Mutant: the last minimum wins a tie.
RECURSIVE argmin_last_from(_, _, _)
argmin_last_from(s, i, best) ==
    IF i > Len(s) THEN best - 1
    ELSE argmin_last_from(s, i + 1, IF s[i] <= s[best] THEN i ELSE best)

argmin_last(s) == argmin_last_from(s, 2, 1)

argmin(s) == argmin_from(s, 2, 1)

\* numpy.abs(array - val).argmin()
find_closest_idx_in_array(array, val) ==
    argmin([i \in 1..Len(array) |-> Abs(array[i] - val)])

\* The result of getBinauralSound: an Exception for an angle outside
\* [-90, 90]; otherwise audio_in convolved with brir[angle_idx], which is
\* represented by the pair (audio_in, angle_idx).
getBinauralSound(audio_in, positions, a) ==
    IF a > 90 \/ a < -90
    THEN [raised |-> TRUE]
    ELSE LET a360 == IF a < 0 THEN a + 360 ELSE a
         IN  [raised |-> FALSE,
              audio_in |-> audio_in,
              angle_idx |-> find_closest_idx_in_array(positions, a360)]

(***************************************************************************)
(* __init__ (lines 24-49): the per-source loop.                            *)
(***************************************************************************)
\* Lengths an input signal may have: the configured one, one less, one more.
SignalLengths ==
    {signal_length_samples - 1, signal_length_samples, signal_length_samples + 1}

\* Impulse-response databases used when a mixture is constructed.
PosDefSamples == {<<0, 90, 270, 355>>, <<350, 0, 45>>}

\* Mutant: the length is not checked.
length_ok_always(signal) == TRUE

\* The condition of the assert at line 37.
length_ok(signal) == signal = signal_length_samples

UnusedByInit ==
    /\ forbidden_angles = None /\ angle = None /\ audio_out = None
    /\ out_ind = None /\ time_ind = None /\ sgram_vals = None
    /\ noise_val = None /\ noise_silent = None /\ targets = None
    /\ dnn_target = None /\ mixed_ibm = None /\ ibms = None
    /\ rec_angles = None /\ performance = None

\* Lines 25-35: a non-empty in_signals (in_signals[0] is read at line 32),
\* empty signals and angles, a zero mixture.
Init ==
    /\ pc = "loop"
    /\ in_signals \in SeqsOf(SignalLengths, 1, MaxSources)
    /\ pos_def \in PosDefSamples
    /\ sig_idx = 1
    /\ angles = <<>>
    /\ signals = <<>>
    /\ res_signal = {}
    /\ UnusedByInit

ctorUnchanged ==
    UNCHANGED <<in_signals, pos_def, forbidden_angles, angle, audio_out,
                out_ind, time_ind, sgram_vals, noise_val, noise_silent,
                targets, dnn_target, mixed_ibm, ibms, rec_angles, performance>>

\* Line 37 fails: AssertionError leaves the constructor.
LengthMismatch ==
    /\ pc = "loop"
    /\ sig_idx <= Len(in_signals)
    /\ ~length_ok(in_signals[sig_idx])
    /\ pc' = "AssertionError"
    /\ UNCHANGED <<sig_idx, angles, signals, res_signal>>
    /\ ctorUnchanged

\* Lines 37-46 for one signal: allocate an angle, render, accumulate.
RenderSource ==
    /\ pc = "loop"
    /\ sig_idx <= Len(in_signals)
    /\ length_ok(in_signals[sig_idx])
    /\ IF getRandomAngle(angles) = {}
       THEN /\ pc' = "IndexError"
            /\ UNCHANGED <<sig_idx, angles, signals, res_signal>>
       ELSE \E a \in getRandomAngle(angles) :
              LET binaural_signal == getBinauralSound(sig_idx, pos_def, a)
              IN  /\ angles' = Append(angles, a)
                  /\ IF binaural_signal.raised
                     THEN /\ pc' = "Exception"
                          /\ UNCHANGED <<sig_idx, signals, res_signal>>
                     ELSE /\ signals' = Append(signals, binaural_signal)
                          /\ res_signal' = res_signal \cup {binaural_signal}
                          /\ sig_idx' = sig_idx + 1
                          /\ pc' = "loop"
    /\ ctorUnchanged

\* The loop is over: lines 48-49 derive targets and features (the targets are
\* modelled by LabelSpec) and the entry is constructed.
FinishConstruction ==
    /\ pc = "loop"
    /\ sig_idx > Len(in_signals)
    /\ pc' = "constructed"
    /\ UNCHANGED <<sig_idx, angles, signals, res_signal>>
    /\ ctorUnchanged

Next == LengthMismatch \/ RenderSource \/ FinishConstruction

Spec == Init /\ [][Next]_vars

(***************************************************************************)
(* Properties of the constructor's loop.                                   *)
(***************************************************************************)
\* The grid of azimuths, stated without the allocator's list.
GridSet == {a \in -90..90 : a % 5 = 0}

\* C3: after every iteration of the per-source loop the angles allocated so
\* far are pairwise distinct and lie on the grid -90, -85, ..., 90, and
\* getBinauralSound never raises for an angle outside [-90, 90].
C3_AnglesDistinctOnGrid ==
    /\ \A i, j \in 1..Len(angles) : i # j => angles[i] # angles[j]
    /\ \A i \in 1..Len(angles) : angles[i] \in GridSet
    /\ pc # "Exception"

\* A mixture of at least two sources has been constructed.
C3_Witness == pc = "constructed" /\ Len(angles) >= 2

\* Positions of in_signals whose length is not the configured one.
BadPositions ==
    {i \in 1..Len(in_signals) : in_signals[i] # signal_length_samples}

\* C8 as claimed: when construction fails with the length error, no source
\* has been allocated an angle, rendered or accumulated.
C8_FailsBeforeAnyRendering ==
    pc = "AssertionError" =>
        angles = <<>> /\ signals = <<>> /\ res_signal = {}

\* C8 amended: construction fails with the length error when the loop reaches
\* the first signal of wrong length: neither that signal nor a later one is
\* ever allocated, rendered or accumulated, every signal before it already
\* is, and an entry is constructed only when every length is right.
C8_FailsAtFirstBadSignal ==
    /\ BadPositions # {} =>
          \A i \in BadPositions :
              Len(angles) < i /\ Len(signals) < i /\ Cardinality(res_signal) < i
    /\ pc = "AssertionError" =>
          /\ sig_idx \in BadPositions
          /\ \A i \in BadPositions : sig_idx <= i
          /\ Len(angles) = sig_idx - 1
          /\ Len(signals) = sig_idx - 1
          /\ Cardinality(res_signal) = sig_idx - 1
    /\ pc = "constructed" => BadPositions = {}

\* The length error is raised after an earlier source was rendered.
C8_Witness ==
    pc = "AssertionError" /\ Len(signals) >= 1 /\ res_signal # {}

(***************************************************************************)
(* getRandomAngle called directly on a list of forbidden angles.           *)
(***************************************************************************)
\* Angles off the grid, which a caller may also forbid.
OffGridAngles == {3}

RECURSIVE SmallSubsets(_, _)
\* The subsets of S with at most k elements.
SmallSubsets(S, k) ==
    IF k = 0 THEN {{}}
    ELSE LET P == SmallSubsets(S, k - 1)
         IN  P \cup {s \cup {x} : s \in P, x \in S}

RECURSIVE SortedSeq(_)
\* The elements of a finite set of integers in ascending order.
SortedSeq(S) ==
    IF S = {} THEN <<>>
    ELSE LET m == CHOOSE x \in S : \A y \in S : x <= y
         IN  <<m>> \o SortedSeq(S \ {m})

\* Lists that forbid few angles, and lists that leave few grid angles free.
ForbiddenLists ==
    LET few  == SmallSubsets(GridSet \cup OffGridAngles, MaxForbidden)
        free == SmallSubsets(GridSet, MaxForbidden)
    IN  {SortedSeq(s) : s \in few \cup {GridSet \ f : f \in free}}

InitAlloc ==
    /\ pc = "call"
    /\ forbidden_angles \in ForbiddenLists
    /\ angle = None
    /\ in_signals = None /\ sig_idx = None /\ angles = None /\ signals = None
    /\ res_signal = None /\ pos_def = None /\ audio_out = None
    /\ out_ind = None /\ time_ind = None /\ sgram_vals = None
    /\ noise_val = None /\ noise_silent = None /\ targets = None
    /\ dnn_target = None /\ mixed_ibm = None /\ ibms = None
    /\ rec_angles = None /\ performance = None

allocUnchanged ==
    UNCHANGED <<in_signals, sig_idx, angles, signals, res_signal, pos_def,
                forbidden_angles, audio_out, out_ind, time_ind, sgram_vals,
                noise_val, noise_silent, targets, dnn_target, mixed_ibm, ibms,
                rec_angles, performance>>

\* Line 102 returns one of the possible angles.
AllocateAngle ==
    /\ pc = "call"
    /\ \E a \in getRandomAngle(forbidden_angles) :
          /\ angle' = a
          /\ pc' = "returned"
    /\ allocUnchanged

\* Line 102 raises: random.choice of an empty list.
AllocateFails ==
    /\ pc = "call"
    /\ getRandomAngle(forbidden_angles) = {}
    /\ pc' = "IndexError"
    /\ angle' = angle
    /\ allocUnchanged

NextAlloc == AllocateAngle \/ AllocateFails

AllocSpec == InitAlloc /\ [][NextAlloc]_vars

\* C9: getRandomAngle returns a grid angle that is not forbidden whenever one
\* exists, and fails exactly when all 37 grid angles are forbidden (the call
\* made for a 38th source).
C9_AllocatesUnlessExhausted ==
    LET free == GridSet \ Range(forbidden_angles)
    IN  /\ Cardinality(GridSet) = 37
        /\ pc = "returned" => angle \in free
        /\ pc = "IndexError" => free = {}

\* The call fails on a list holding all 37 grid angles.
C9_Witness ==
    pc = "IndexError" /\ Cardinality(Range(forbidden_angles)) >= 37

(***************************************************************************)
(* getBinauralSound called directly: the impulse-response lookup.          *)
(***************************************************************************)
\* Azimuths a database may store (0-360 convention).
AzimuthSamples == {0, 10, 90, 350, 360}

\* Azimuths a caller may request.
AngleRequests == {-95, -90, -5, 0, 5, 90, 95}

InitLookup ==
    /\ pc = "call"
    /\ pos_def \in SeqsOf(AzimuthSamples, 1, MaxDirections)
    /\ angle \in AngleRequests
    /\ audio_out = None
    /\ in_signals = None /\ sig_idx = None /\ angles = None /\ signals = None
    /\ res_signal = None /\ forbidden_angles = None
    /\ out_ind = None /\ time_ind = None /\ sgram_vals = None
    /\ noise_val = None /\ noise_silent = None /\ targets = None
    /\ dnn_target = None /\ mixed_ibm = None /\ ibms = None
    /\ rec_angles = None /\ performance = None

lookupUnchanged ==
    UNCHANGED <<in_signals, sig_idx, angles, signals, res_signal, pos_def,
                forbidden_angles, angle, out_ind, time_ind, sgram_vals,
                noise_val, noise_silent, targets, dnn_target, mixed_ibm, ibms,
                rec_angles, performance>>

\* Line 119: the angle is rejected.
LookupRaises ==
    /\ pc = "call"
    /\ getBinauralSound(1, pos_def, angle).raised
    /\ pc' = "Exception"
    /\ audio_out' = audio_out
    /\ lookupUnchanged

\* Lines 120-132: the nearest stored direction renders the sound.
LookupReturns ==
    /\ pc = "call"
    /\ ~getBinauralSound(1, pos_def, angle).raised
    /\ audio_out' = getBinauralSound(1, pos_def, angle)
    /\ pc' = "returned"
    /\ lookupUnchanged

NextLookup == LookupRaises \/ LookupReturns

LookupSpec == InitLookup /\ [][NextLookup]_vars

\* The requested azimuth on the database's 0-360 convention.
Normalized == IF angle < 0 THEN angle + 360 ELSE angle

\* C5: the lookup rejects an azimuth outside [-90, 90], maps a negative
\* azimuth a to a + 360 and selects the first stored direction, in storage
\* order, whose azimuth is nearest; an azimuth stored exactly is returned.
C5_NearestFirstStored ==
    /\ pc = "Exception" => (angle < -90 \/ angle > 90)
    /\ pc = "returned" =>
          LET i == audio_out.angle_idx + 1
              dist(k) == Abs(pos_def[k] - Normalized)
          IN  /\ angle >= -90 /\ angle <= 90
              /\ i \in 1..Len(pos_def)
              /\ \A k \in 1..Len(pos_def) : dist(i) <= dist(k)
              /\ \A k \in 1..(i - 1) : dist(k) > dist(i)
              /\ Normalized \in Range(pos_def) => pos_def[i] = Normalized

\* A negative azimuth was looked up and two stored directions tie.
C5_Witness ==
    /\ pc = "returned"
    /\ angle < 0
    /\ \E k \in 1..Len(pos_def) :
          /\ k # audio_out.angle_idx + 1
          /\ Abs(pos_def[k] - Normalized)
                = Abs(pos_def[audio_out.angle_idx + 1] - Normalized)
          /\ pos_def[k] # pos_def[audio_out.angle_idx + 1]

(***************************************************************************)
(* updateTargetsFromSignals (lines 59-89), one step per (frequency, time)  *)
(* bin.  features.getSpectrogram is external: the magnitudes of a bin are  *)
(* whatever it produced, read when the loop reaches the bin.               *)
(***************************************************************************)
\* Magnitudes a source spectrogram may hold at a bin.
Magnitudes == {0, 1, 2}

\* Values the noise spectrogram may hold at a bin when it is not all zero.
NoiseMagnitudes == {0, 3}

\* Azimuths the sources of a labelled mixture were allocated.
LabelAngleSamples == {-90, 0, 90}

\* numpy argmax of a non-empty sequence: 0-based index of the first maximum.
RECURSIVE argmax_from(_, _, _)
argmax_from(s, i, best) ==
    IF i > Len(s) THEN best - 1
    ELSE argmax_from(s, i + 1, IF s[i] > s[best] THEN i ELSE best)

\* Mutant: the last maximum wins a tie.
RECURSIVE argmax_last_from(_, _, _)
argmax_last_from(s, i, best) ==
    IF i > Len(s) THEN best - 1
    ELSE argmax_last_from(s, i + 1, IF s[i] >= s[best] THEN i ELSE best)

argmax_last(s) == argmax_last_from(s, 2, 1)

argmax(s) == argmax_from(s, 2, 1)

\* numpy max of a non-empty sequence.
array_max(s) == s[argmax(s) + 1]

\* Mutant: the comparison with the noise threshold is not strict.
below_noise_th_or_equal(max_val, noise) ==
    max_val * NoiseFactorDen <= noise * NoiseFactorNum

\* Lines 83-84: max_val < noise_sgram[bin] * 10 ** (SGRAM_NOISE_TH_dB / 10).
below_noise_th(max_val, noise) ==
    max_val * NoiseFactorDen < noise * NoiseFactorNum

\* A row of numpy.zeros((.., NUM_OF_DIRECTIONS + 1)).
ZeroRow == [c \in 0..NUM_OF_DIRECTIONS |-> 0]

\* Lines 78-87: the column of the bin's row that is set to 1; the index -1
\* of line 85 is the last column.
label_column(vals, noise, source_angles) ==
    LET max_ind   == argmax(vals)
        max_val   == array_max(vals)
        max_angle == source_angles[max_ind + 1]
        angle_ind == getAngleIdx(max_angle)
    IN  IF below_noise_th(max_val, noise)
        THEN (NUM_OF_DIRECTIONS + 1) - 1
        ELSE angle_ind

\* Lines 60-70: the spectrograms exist, the targets are all zero.
InitLabel ==
    /\ pc = "label_loop"
    /\ angles \in DistinctSeqsOf(LabelAngleSamples, 1, MaxSources)
    /\ noise_silent \in BOOLEAN
    /\ out_ind = 0
    /\ time_ind = 0
    /\ sgram_vals = <<>>
    /\ noise_val = 0
    /\ targets = [f \in 0..(SgramChannels - 1) |->
                    [t \in 0..(SgramFrames - 1) |-> ZeroRow]]
    /\ in_signals = None /\ sig_idx = None /\ signals = None
    /\ res_signal = None /\ pos_def = None /\ forbidden_angles = None
    /\ angle = None /\ audio_out = None
    /\ dnn_target = None /\ mixed_ibm = None /\ ibms = None
    /\ rec_angles = None /\ performance = None

labelUnchanged ==
    UNCHANGED <<in_signals, sig_idx, angles, signals, res_signal, pos_def,
                forbidden_angles, angle, audio_out, noise_silent, dnn_target,
                mixed_ibm, ibms, rec_angles, performance>>

\* Lines 73-87 for the bin (time_ind, out_ind), then the loops advance.
LabelBin ==
    /\ pc = "label_loop"
    /\ out_ind < SgramChannels
    /\ \E vals \in [1..Len(angles) -> Magnitudes],
          noise \in (IF noise_silent THEN {0} ELSE NoiseMagnitudes) :
          LET col == label_column(vals, noise, angles)
          IN  /\ sgram_vals' = vals
              /\ noise_val' = noise
              /\ IF col \in 0..NUM_OF_DIRECTIONS
                 THEN /\ targets' = [targets EXCEPT ![out_ind][time_ind][col] = 1]
                      /\ pc' = "label_loop"
                      /\ IF time_ind + 1 < SgramFrames
                         THEN time_ind' = time_ind + 1 /\ out_ind' = out_ind
                         ELSE time_ind' = 0 /\ out_ind' = out_ind + 1
                 ELSE /\ pc' = "IndexError"
                      /\ UNCHANGED <<targets, out_ind, time_ind>>
    /\ labelUnchanged

\* Line 89: self.targets = targets.
StoreTargets ==
    /\ pc = "label_loop"
    /\ out_ind = SgramChannels
    /\ pc' = "labelled"
    /\ UNCHANGED <<out_ind, time_ind, sgram_vals, noise_val, targets>>
    /\ labelUnchanged

NextLabel == LabelBin \/ StoreTargets

LabelSpec == InitLabel /\ [][NextLabel]_vars

\* The row that is 1 at column c and 0 elsewhere.
OneHot(c) == [k \in 0..NUM_OF_DIRECTIONS |-> IF k = c THEN 1 ELSE 0]

\* Number of bins labelled so far, and the bin labelled last.
BinsDone == out_ind * SgramFrames + time_ind
LastFreq == (BinsDone - 1) \div SgramFrames
LastTime == (BinsDone - 1) % SgramFrames

\* Whether bin (f, t) has been labelled.
Labelled(f, t) == f * SgramFrames + t < BinsDone

\* The largest source magnitude of the last bin, the first source attaining it.
MaxVal == CHOOSE v \in Range(sgram_vals) : \A w \in Range(sgram_vals) : v >= w
MaxSourceIdx ==
    CHOOSE i \in 1..Len(sgram_vals) :
        sgram_vals[i] = MaxVal /\ \A j \in 1..(i - 1) : sgram_vals[j] # MaxVal

\* C1: every bin is labelled by the competitive rule: one-hot on the noise
\* column (the last one) if maxVal < noise * 10^(noiseFloorDb/10), strictly,
\* and otherwise one-hot on column (angle + 90) / 5 of the angle of the first
\* source attaining maxVal; every labelled row holds exactly one 1.
C1_CompetitiveLabel ==
    /\ pc # "IndexError"
    /\ BinsDone >= 1 =>
          targets[LastFreq][LastTime] =
              OneHot(IF MaxVal * NoiseFactorDen < noise_val * NoiseFactorNum
                     THEN NUM_OF_DIRECTIONS
                     ELSE (angles[MaxSourceIdx] + 90) \div 5)
    /\ \A f \in 0..(SgramChannels - 1), t \in 0..(SgramFrames - 1) :
          Labelled(f, t) =>
              /\ \A c \in 0..NUM_OF_DIRECTIONS : targets[f][t][c] \in {0, 1}
              /\ Cardinality({c \in 0..NUM_OF_DIRECTIONS : targets[f][t][c] = 1}) = 1
    /\ pc = "labelled" => BinsDone = SgramChannels * SgramFrames

\* The targets are complete; one bin is noise, and the last bin went to the
\* second source although the first one is not silent there.
C1_Witness ==
    /\ pc = "labelled"
    /\ Len(angles) >= 2
    /\ \E f \in 0..(SgramChannels - 1), t \in 0..(SgramFrames - 1) :
          targets[f][t][NUM_OF_DIRECTIONS] = 1
    /\ sgram_vals[1] > 0
    /\ targets[LastFreq][LastTime][(angles[2] + 90) \div 5] = 1

\* C10: with an all-zero noise spectrogram and non-negative magnitudes no bin
\* is labelled noise: every labelled bin carries the angle class of a source,
\* and a bin where all sources are silent carries that of the first source.
C10_SilentNoiseNeverLabelsNoise ==
    (noise_silent /\ \A i \in 1..Len(sgram_vals) : sgram_vals[i] >= 0) =>
        /\ \A f \in 0..(SgramChannels - 1), t \in 0..(SgramFrames - 1) :
              Labelled(f, t) =>
                  /\ targets[f][t][NUM_OF_DIRECTIONS] = 0
                  /\ \E i \in 1..Len(angles) :
                        targets[f][t][(angles[i] + 90) \div 5] = 1
        /\ (BinsDone >= 1 /\ \A i \in 1..Len(sgram_vals) : sgram_vals[i] = 0) =>
              targets[LastFreq][LastTime] = OneHot((angles[1] + 90) \div 5)

\* Two sources, both silent at the bin labelled last, under silent noise.
C10_Witness ==
    /\ noise_silent
    /\ BinsDone >= 1
    /\ Len(angles) >= 2
    /\ \A i \in 1..Len(sgram_vals) : sgram_vals[i] = 0
    /\ targets[LastFreq][LastTime][(angles[1] + 90) \div 5] = 1

(***************************************************************************)
(* dnnTargetToMixedIbm, mixedIbmToIbms (lines 223-252).                    *)
(***************************************************************************)
\* A row of a (time, classes) array as the sequence numpy's argmax scans.
RowSeq(row) == [i \in 1..(NUM_OF_DIRECTIONS + 1) |-> row[i - 1]]

\* Extent of a 0-based array: dnn_target[0].shape[0], len(dnn_target), ...
Extent(a) == Cardinality(DOMAIN a)

\* Mutant: the frequency and time indices of dnn_target are exchanged.
dnnTargetToMixedIbm_swapped(target) ==
    [time_dim \in 0..(Extent(target[0]) - 1) |->
        [freq_dim \in 0..(Extent(target) - 1) |->
            argmax(RowSeq(target[time_dim][freq_dim]))]]

\* Lines 225-230: mixed_ibm[time_dim, freq_dim] is the argmax of the row.
dnnTargetToMixedIbm(target) ==
    [time_dim \in 0..(Extent(target[0]) - 1) |->
        [freq_dim \in 0..(Extent(target) - 1) |->
            argmax(RowSeq(target[freq_dim][time_dim]))]]

\* The bins of a (time, frequency) map.
Bins(map) == {<<t, f>> : t \in DOMAIN map, f \in DOMAIN map[0]}

\* numpy.unique(mixed_ibm, return_counts=True): the sorted distinct values
\* and, for a value, the number of bins holding it.
unique_values(map) == SortedSeq({map[b[1]][b[2]] : b \in Bins(map)})
value_count(map, v) == Cardinality({b \in Bins(map) : map[b[1]][b[2]] = v})

\* Mutant: a class with exactly the threshold's count is dropped too.
below_support_or_equal(count) == count <= MIXED_IBM_IDENTIFICATION_TH

\* Line 240.
below_support(count) == count < MIXED_IBM_IDENTIFICATION_TH

\* Line 244.
is_noise_class(class) == class >= NUM_OF_DIRECTIONS

\* Lines 247-248: 1 where the map equals the class, 0 elsewhere.
class_ibm(map, class) ==
    [t \in DOMAIN map |-> [f \in DOMAIN map[0] |->
        IF map[t][f] = class THEN 1 ELSE 0]]

RECURSIVE ibm_loop(_, _, _, _)
\* Lines 239-250 from position ind (1-based) of angle_ind on.
ibm_loop(map, angle_ind, ind, acc) ==
    IF ind > Len(angle_ind) THEN acc
    ELSE IF below_support(value_count(map, angle_ind[ind]))
         THEN ibm_loop(map, angle_ind, ind + 1, acc)
    ELSE IF is_noise_class(angle_ind[ind])
         THEN ibm_loop(map, angle_ind, ind + 1, acc)
    ELSE ibm_loop(map, angle_ind, ind + 1,
                  [ibms |-> Append(acc.ibms, class_ibm(map, angle_ind[ind])),
                   angles |-> Append(acc.angles,
                                     getAngleFromIdx(angle_ind[ind]))])

\* Lines 233-252: the pair (ibms, angles).
mixedIbmToIbms(map) ==
    ibm_loop(map, unique_values(map), 1, [ibms |-> <<>>, angles |-> <<>>])

\* Classes a row of the codec's targets may be one-hot on: the first and the
\* last direction, and the noise class.
CodecClasses == {0, NUM_OF_DIRECTIONS - 1, NUM_OF_DIRECTIONS}

InitCodec ==
    /\ pc = "encode"
    /\ dnn_target \in [0..(NumFreq - 1) ->
                         [0..(NumTime - 1) -> {OneHot(c) : c \in CodecClasses}]]
    /\ mixed_ibm = None /\ ibms = None /\ rec_angles = None
    /\ in_signals = None /\ sig_idx = None /\ angles = None /\ signals = None
    /\ res_signal = None /\ pos_def = None /\ forbidden_angles = None
    /\ angle = None /\ audio_out = None
    /\ out_ind = None /\ time_ind = None /\ sgram_vals = None
    /\ noise_val = None /\ noise_silent = None /\ targets = None
    /\ performance = None

codecUnchanged ==
    UNCHANGED <<in_signals, sig_idx, angles, signals, res_signal, pos_def,
                forbidden_angles, angle, audio_out, out_ind, time_ind,
                sgram_vals, noise_val, noise_silent, targets, dnn_target,
                performance>>

\* mixed_ibm = dnnTargetToMixedIbm(targets)  (line 198)
Encode ==
    /\ pc = "encode"
    /\ mixed_ibm' = dnnTargetToMixedIbm(dnn_target)
    /\ pc' = "decode"
    /\ UNCHANGED <<ibms, rec_angles>>
    /\ codecUnchanged

\* (unique_ibms, angles) = mixedIbmToIbms(mixed_ibm)  (line 210)
Decode ==
    /\ pc = "decode"
    /\ LET decoded == mixedIbmToIbms(mixed_ibm)
       IN  ibms' = decoded.ibms /\ rec_angles' = decoded.angles
    /\ pc' = "decoded"
    /\ UNCHANGED mixed_ibm
    /\ codecUnchanged

NextCodec == Encode \/ Decode

CodecSpec == InitCodec /\ [][NextCodec]_vars

\* The bins (time, frequency) of the targets whose row is one-hot on class c.
TargetBins(c) ==
    {<<t, f>> \in (0..(NumTime - 1)) \X (0..(NumFreq - 1)) :
        dnn_target[f][t] = OneHot(c)}

\* C2: round trip: every mask of mixedIbmToIbms(dnnTargetToMixedIbm(targets))
\* is 1 at exactly the bins whose target row is one-hot on the mask's class
\* and 0 elsewhere, for every class that is not noise and not removed by the
\* minimum-support filter.
C2_RoundTrip ==
    pc = "decoded" =>
        /\ Len(ibms) = Len(rec_angles)
        /\ \A i \in 1..Len(ibms) :
              \E c \in 0..(NUM_OF_DIRECTIONS - 1) :
                  /\ rec_angles[i] = c * 5 - 90
                  /\ Cardinality(TargetBins(c)) >= MIXED_IBM_IDENTIFICATION_TH
                  /\ \A t \in 0..(NumTime - 1), f \in 0..(NumFreq - 1) :
                        ibms[i][t][f] =
                            IF <<t, f>> \in TargetBins(c) THEN 1 ELSE 0
        /\ \A c \in 0..(NUM_OF_DIRECTIONS - 1) :
              Cardinality(TargetBins(c)) >= MIXED_IBM_IDENTIFICATION_TH =>
                  \E i \in 1..Len(ibms) :
                      /\ rec_angles[i] = c * 5 - 90
                      /\ \A t \in 0..(NumTime - 1), f \in 0..(NumFreq - 1) :
                            ibms[i][t][f] =
                                IF <<t, f>> \in TargetBins(c) THEN 1 ELSE 0

\* A class survives the round trip with a mask that is neither full nor empty.
C2_Witness ==
    /\ pc = "decoded"
    /\ \E i \in 1..Len(ibms) :
          \E t1, t2 \in 0..(NumTime - 1), f1, f2 \in 0..(NumFreq - 1) :
              ibms[i][t1][f1] = 1 /\ ibms[i][t2][f2] = 0

\* The distinct classes of the mixed map, and those that are to survive.
PresentClasses ==
    {mixed_ibm[t][f] : t \in 0..(NumTime - 1), f \in 0..(NumFreq - 1)}
ClassSupport(c) ==
    Cardinality({<<t, f>> \in (0..(NumTime - 1)) \X (0..(NumFreq - 1)) :
                    mixed_ibm[t][f] = c})
Survivors ==
    {c \in PresentClasses :
        ClassSupport(c) >= MIXED_IBM_IDENTIFICATION_TH /\ c # NUM_OF_DIRECTIONS}

\* C4: mixedIbmToIbms emits, in ascending class order, for exactly the classes
\* present with at least the minimum support that are not the noise class, the
\* binary mask of the class and the angle classIndex * 5 - 90; a map of noise
\* bins only yields empty lists.
C4_DecodeSurvivorsAscending ==
    pc = "decoded" =>
        /\ Len(ibms) = Cardinality(Survivors)
        /\ Len(rec_angles) = Cardinality(Survivors)
        /\ \A c \in Survivors : \E i \in 1..Len(rec_angles) :
              rec_angles[i] = c * 5 - 90
        /\ \A i \in 1..Len(rec_angles) :
              /\ (rec_angles[i] + 90) % 5 = 0
              /\ (rec_angles[i] + 90) \div 5 \in Survivors
              /\ ibms[i] = [t \in 0..(NumTime - 1) |-> [f \in 0..(NumFreq - 1) |->
                              IF mixed_ibm[t][f] = (rec_angles[i] + 90) \div 5
                              THEN 1 ELSE 0]]
        /\ \A i, j \in 1..Len(rec_angles) : i < j => rec_angles[i] < rec_angles[j]
        /\ PresentClasses = {NUM_OF_DIRECTIONS} =>
              ibms = <<>> /\ rec_angles = <<>>

\* Two classes survive and are emitted in ascending order.
C4_Witness ==
    /\ pc = "decoded"
    /\ Len(ibms) = 2
    /\ rec_angles[1] < rec_angles[2]

(***************************************************************************)
(* estimateNetsPerformance (lines 254-292).                                *)
(***************************************************************************)
\* A ratio a / b of Python's true division, kept as the pair of its terms.
Ratio(a, b) == [num |-> a, den |-> b]

\* len([a for a in xs if a not in ys])
count_not_in(xs, ys) ==
    LET missing(a) == ~InList(a, ys)
    IN  Len(SelectSeq(xs, missing))

\* Line 286.
source_md(self_angles, recovered) ==
    Ratio(count_not_in(self_angles, recovered), Len(self_angles))

\* Mutant: the false alarms are counted against the ground truth.
source_fa_over_truth(self_angles, recovered) ==
    Ratio(count_not_in(recovered, self_angles), Len(self_angles))

\* Line 289.
source_fa(self_angles, recovered) ==
    Ratio(count_not_in(recovered, self_angles), Len(recovered))

\* Classes the networks may prefer at a bin: -10 degrees, 30 degrees, noise.
EvalClasses == {16, 24, NUM_OF_DIRECTIONS}

\* A row of scores with its peak at class c and a lower score at class 0.
PeakRow(c) ==
    [k \in 0..NUM_OF_DIRECTIONS |-> IF k = c THEN 2 ELSE IF k = 0 THEN 1 ELSE 0]

\* Azimuths of the ground truth.
EvalAngleSamples == {-10, 20}

\* An entry was constructed (self.angles is not empty) and the networks have
\* predicted net_output, which is passed on as dnn_target.
InitEval ==
    /\ pc = "evaluate"
    /\ angles \in DistinctSeqsOf(EvalAngleSamples, 1, MaxSources)
    /\ dnn_target \in [0..(NumFreq - 1) ->
                         [0..(NumTime - 1) -> {PeakRow(c) : c \in EvalClasses}]]
    /\ mixed_ibm = None /\ ibms = None /\ rec_angles = None
    /\ performance = None
    /\ in_signals = None /\ sig_idx = None /\ signals = None
    /\ res_signal = None /\ pos_def = None /\ forbidden_angles = None
    /\ angle = None /\ audio_out = None
    /\ out_ind = None /\ time_ind = None /\ sgram_vals = None
    /\ noise_val = None /\ noise_silent = None /\ targets = None

evalUnchanged ==
    UNCHANGED <<in_signals, sig_idx, angles, signals, res_signal, pos_def,
                forbidden_angles, angle, audio_out, out_ind, time_ind,
                sgram_vals, noise_val, noise_silent, targets, dnn_target>>

\* Lines 263-292 when neither division is by zero.
EvaluateReturns ==
    /\ pc = "evaluate"
    /\ mixed_ibm' = dnnTargetToMixedIbm(dnn_target)
    /\ LET decoded == mixedIbmToIbms(mixed_ibm')
       IN  /\ Len(angles) # 0
           /\ Len(decoded.angles) # 0
           /\ ibms' = decoded.ibms
           /\ rec_angles' = decoded.angles
           /\ performance' = [source_md |-> source_md(angles, decoded.angles),
                              source_fa |-> source_fa(angles, decoded.angles)]
    /\ pc' = "returned"
    /\ evalUnchanged

\* Line 286 or line 289 divides by zero.
EvaluateRaises ==
    /\ pc = "evaluate"
    /\ mixed_ibm' = dnnTargetToMixedIbm(dnn_target)
    /\ LET decoded == mixedIbmToIbms(mixed_ibm')
       IN  /\ Len(angles) = 0 \/ Len(decoded.angles) = 0
           /\ ibms' = decoded.ibms
           /\ rec_angles' = decoded.angles
    /\ performance' = performance
    /\ pc' = "ZeroDivisionError"
    /\ evalUnchanged

NextEval == EvaluateReturns \/ EvaluateRaises

EvalSpec == InitEval /\ [][NextEval]_vars

\* Whether the ratio r equals a / b.
RatioIs(r, a, b) == r.den # 0 /\ b # 0 /\ r.num * b = a * r.den

\* C6: when estimateNetsPerformance returns, source_md is the number of
\* ground-truth angles not recovered over the number of ground-truth angles
\* and source_fa the number of recovered angles not in the ground truth over
\* the number of recovered angles; ground truth {-10, 20} and recovered
\* {-10, 30} give 1/2 and 1/2.
C6_MissAndFalseAlarmRates ==
    pc = "returned" =>
        LET truth     == Range(angles)
            recovered == Range(rec_angles)
        IN  /\ RatioIs(performance.source_md,
                       Cardinality(truth \ recovered), Cardinality(truth))
            /\ RatioIs(performance.source_fa,
                       Cardinality(recovered \ truth), Cardinality(recovered))
            /\ (truth = {-10, 20} /\ recovered = {-10, 30}) =>
                  /\ RatioIs(performance.source_md, 1, 2)
                  /\ RatioIs(performance.source_fa, 1, 2)

\* The scenario: ground truth {-10, 20}, recovered {-10, 30}.
C6_Witness ==
    /\ pc = "returned"
    /\ Range(angles) = {-10, 20}
    /\ Range(rec_angles) = {-10, 30}

\* C7: estimateNetsPerformance returns a defined result, and does not divide
\* by zero, also when no angle is recovered.
C7_NoDivisionByZero == pc # "ZeroDivisionError"

====
